---- MODULE Spec2Model ----
\* A model of the twitter-data backend: the five tables behind the ORM, the
\* controller methods of TweetController, UserController and
\* InteractionController, the generated router in front of them, and the
\* initializeDatabase script.
\*
\* Each controller method is an operator from the database it reads and its
\* arguments to the set of its outcomes (the database it leaves and the answer
\* it gives); the generated handler of a route applies one outcome. Requests
\* are served one at a time.
EXTENDS Integers, Sequences, FiniteSets, TLC

\* ---------------------------------------------------------------- bounds
\* Highest id each table's sequence hands out (the tables are unbounded in
\* the program; the inserting operations stop at these).
MaxUserId == 2
MaxTweetId == 2
MaxCommentId == 1
MaxLikeId == 2
MaxFollowId == 2
\* Highest number of objects the object storage comes to hold.
MaxObjectId == 2
\* Highest value of the clock that stamps created_at.
MaxClock == 1
\* Where all the routes are served together: highest number of rows the
\* tweets, comments, likes and follows tables hold between them, and highest
\* number of uploads made.
MaxRows == 2
MaxUploads == 1
\* Number of followUser requests the server can have in flight at one time.
MaxCalls == 2
\* Number of rows of twitter-init-data/data.json.
InitDataLen == 1

\* ------------------------------------------------------- program constants
\* config.ADMIN_USER_ID and config.GUEST_USER_ID, the fixed ids of the two
\* users initializeDatabase saves.
ADMIN_USER_ID == 1
GUEST_USER_ID == 2
\* Defaults of the limit and offset query parameters.
DefaultLimit == 10
DefaultOffset == 0

ADMIN_USERNAME == "admin"
GUEST_USERNAME == "guest"
ADMIN_EMAIL == "admin@admin.org"
GUEST_EMAIL == "guest@guest.org"

\* ------------------------------------------------------------- value sets
\* SQL NULL / JavaScript null in a text column.
Null == "<null>"
\* A property that is absent from the request (JavaScript undefined).
Absent == "<absent>"
\* req.user when no middleware has set it.
NoUser == 0
\* Number("abc"): the stand-in for NaN, which equals no id.
NaN == 0 - 1000

UserIds == 1..MaxUserId
\* The users a request can carry in req.user (a JWT payload's userId), or none.
ReqUsers == {NoUser} \cup UserIds
\* The ids getCurrentUser() can return: one of them is the id of no User row.
CurrentUserIds == UserIds \cup {MaxUserId + 1}

VARIABLES
    users,      \* rows of twitter.users: [id, username, email]
    tweets,     \* rows of twitter.tweets: [id, imageUrl, tweetText, createdAt, userId]
    comments,   \* rows of twitter.comments: [id, content, createdAt, userId, tweetId]
    likes,      \* rows of twitter.likes: [id, userId, tweetId]
    follows,    \* rows of twitter.follows: [id, followerId, followedId]
    seq,        \* last value of each table's id sequence, and of the object urls
    storage,    \* objects held by the object storage: [url, data, type]
    now,        \* the clock behind CURRENT_TIMESTAMP and new Date()
    initPc,     \* position of the initializeDatabase script
    initI,      \* its loop index i
    dispatched, \* the last request the express router dispatched
    res,        \* what the last operation answered
    calls       \* the followUser requests in flight: [pc, user, target, status]

vars == <<users, tweets, comments, likes, follows, seq, storage, now,
          initPc, initI, dispatched, res, calls>>

\* The requests followUser can be serving at one time, and one that has not
\* been received yet.
Calls == 1..MaxCalls

IdleCall == [pc |-> "idle", user |-> NoUser, target |-> 0, status |-> 0]

\* The database and the object storage as a controller method finds them.
Cur ==
    [users |-> users, tweets |-> tweets, comments |-> comments, likes |-> likes,
     follows |-> follows, seq |-> seq, storage |-> storage, now |-> now]

\* ------------------------------------------------------------ the answers
\* One answer: the operation; the request's user and validated numeric
\* arguments; whether getValidatedArgs accepted the request; the HTTP status
\* (0: none was set, the error went to next); the error; whether the
\* controller method was invoked; how often the generated handler and
\* apiHandler called next; and the payload (counts, or a page of tweets).
Answer(op, user, nums, status) ==
    [op |-> op, user |-> user, nums |-> nums, valid |-> TRUE, status |-> status,
     err |-> "none", invoked |-> TRUE, nextCalls |-> 0,
     counts |-> <<>>, page |-> <<>>]

\* The controller method threw: apiHandler's catch passes the error to next.
Threw(op, user, nums, err) ==
    [Answer(op, user, nums, 0) EXCEPT !.err = err, !.nextCalls = 1]

\* An outcome: the database left behind and the answer.
Out(db, ans) == [db |-> db, ans |-> ans]

NoAnswer == [Answer("none", NoUser, <<>>, 0) EXCEPT !.invoked = FALSE]

\* --------------------------------------------------- argument validation
\* validateFloat of the tsoa runtime, applied to every parameter declared
\* "dataType":"double": the raw text must be a number.
IsNumeric(raw) == raw \in {"-1", "0", "1", "2", "3", "4", "10"}

\* The number a raw value is converted to.
ToNumber(raw) ==
    CASE raw = "-1" -> 0 - 1
      [] raw = "0" -> 0
      [] raw = "1" -> 1
      [] raw = "2" -> 2
      [] raw = "3" -> 3
      [] raw = "4" -> 4
      [] raw = "10" -> 10
      [] OTHER -> NaN

\* A required "double" path parameter.
ValidPath(raw) == IsNumeric(raw)

\* An optional "double" query parameter with a default.
ValidQueryNum(raw) == raw = Absent \/ IsNumeric(raw)
QueryNum(raw, default) == IF raw = Absent THEN default ELSE ToNumber(raw)

\* A "dataType":"string","required":true property or parameter: it must be
\* present; the empty string is a string.
ValidRequiredString(raw) == raw # Absent

\* models.CreateTweetBase64Input
ValidCreateTweetBody(body) ==
    /\ ValidRequiredString(body.imageBase64)
    /\ ValidRequiredString(body.imageFileType)
    /\ ValidRequiredString(body.tweetText)

\* models.CreateCommentInput
ValidCreateCommentBody(body) == ValidRequiredString(body.text)

\* ------------------------------------------------------------ data layer
UserExists(db, id) == \E u \in db.users : u.id = id
TweetExists(db, id) == \E t \in db.tweets : t.id = id
UserById(db, id) == CHOOSE u \in db.users : u.id = id
TweetById(db, id) == CHOOSE t \in db.tweets : t.id = id

\* The unique constraints of User.username and User.email, as they bear on
\* writing the row `row` beside the rows `others`.
UserUniqueNotEnforced(row, others) == TRUE

UserUnique(row, others) ==
    \A u \in others : u.username # row.username /\ u.email # row.email

FollowRows(db, follower, followed) ==
    {f \in db.follows : f.followerId = follower /\ f.followedId = followed}

LikeRows(db, user, tweet) ==
    {l \in db.likes : l.userId = user /\ l.tweetId = tweet}

\* The next value of a table's sequence: an INSERT draws it whether or not
\* the row is accepted.
NextId(db, table) == db.seq[table] + 1
Drawn(db, table) == [db.seq EXCEPT ![table] = @ + 1]


\* ------------------------------------------------------- UserController
\* followUser, had the comparison of the caller with the target been left out.
followUserNoSelfCheck(db, user, target) ==
    IF user = NoUser
    THEN {Out(db, Threw("followUser", user, <<target>>, "TypeError"))}
    ELSE IF ~UserExists(db, target)
    THEN {Out(db, Answer("followUser", user, <<target>>, 404))}
    ELSE IF FollowRows(db, user, target) # {}
    THEN {Out(db, Answer("followUser", user, <<target>>, 409))}
    ELSE {Out([db EXCEPT
                 !.follows = @ \cup {[id |-> NextId(db, "follows"),
                                      followerId |-> user, followedId |-> target]},
                 !.seq = Drawn(db, "follows")],
              Answer("followUser", user, <<target>>, 200))}

\* followUser, had the lookup of an existing Follow row been left out.
followUserNoExistsCheck(db, user, target) ==
    IF user = NoUser
    THEN {Out(db, Threw("followUser", user, <<target>>, "TypeError"))}
    ELSE IF user = target
    THEN {Out(db, Answer("followUser", user, <<target>>, 400))}
    ELSE IF ~UserExists(db, target)
    THEN {Out(db, Answer("followUser", user, <<target>>, 404))}
    ELSE {Out([db EXCEPT
                 !.follows = @ \cup {[id |-> NextId(db, "follows"),
                                      followerId |-> user, followedId |-> target]},
                 !.seq = Drawn(db, "follows")],
              Answer("followUser", user, <<target>>, 200))}

followUser(db, user, target) ==
    IF user = NoUser
    THEN \* currentUser is undefined: reading currentUser.userId throws
         {Out(db, Threw("followUser", user, <<target>>, "TypeError"))}
    ELSE IF user = target
    THEN {Out(db, Answer("followUser", user, <<target>>, 400))}
    ELSE IF ~UserExists(db, target)
    THEN {Out(db, Answer("followUser", user, <<target>>, 404))}
    ELSE IF FollowRows(db, user, target) # {}
    THEN {Out(db, Answer("followUser", user, <<target>>, 409))}
    ELSE {Out([db EXCEPT
                 !.follows = @ \cup {[id |-> NextId(db, "follows"),
                                      followerId |-> user, followedId |-> target]},
                 !.seq = Drawn(db, "follows")],
              Answer("followUser", user, <<target>>, 200))}

\* unfollowUser, had the two columns of the delete been given each other's
\* value.
unfollowUserSwapped(db, user, target) ==
    IF user = NoUser
    THEN {Out(db, Threw("unfollowUser", user, <<target>>, "TypeError"))}
    ELSE {Out([db EXCEPT !.follows = @ \ FollowRows(db, target, user)],
              Answer("unfollowUser", user, <<target>>,
                     IF FollowRows(db, target, user) = {} THEN 404 ELSE 200))}

unfollowUser(db, user, target) ==
    IF user = NoUser
    THEN {Out(db, Threw("unfollowUser", user, <<target>>, "TypeError"))}
    ELSE {Out([db EXCEPT !.follows = @ \ FollowRows(db, user, target)],
              Answer("unfollowUser", user, <<target>>,
                     IF FollowRows(db, user, target) = {} THEN 404 ELSE 200))}

\* followRepo.count({ where: { followedId: userId } }), with the column
\* mistaken for follower_id.
FollowersCountByFollower(db, userId) ==
    Cardinality({f \in db.follows : f.followerId = userId})

\* followRepo.count({ where: { followedId: userId } })
FollowersCount(db, userId) ==
    Cardinality({f \in db.follows : f.followedId = userId})

\* followRepo.count({ where: { followerId: userId } })
FollowingCount(db, userId) ==
    Cardinality({f \in db.follows : f.followerId = userId})

\* getUserProfile, had it created the profile it did not find.
getUserProfileOrCreate(db, userId) ==
    IF ~UserExists(db, userId)
    THEN {Out([db EXCEPT !.users = @ \cup {[id |-> userId, username |-> "user",
                                            email |-> "user@example.org"]}],
              [Answer("getUserProfile", NoUser, <<userId>>, 200) EXCEPT
                 !.counts = <<FollowersCount(db, userId), FollowingCount(db, userId)>>])}
    ELSE {Out(db, [Answer("getUserProfile", NoUser, <<userId>>, 200) EXCEPT
                     !.counts = <<FollowersCount(db, userId),
                                  FollowingCount(db, userId)>>])}

getUserProfile(db, userId) ==
    IF ~UserExists(db, userId)
    THEN {Out(db, Answer("getUserProfile", NoUser, <<userId>>, 404))}
    ELSE {Out(db, [Answer("getUserProfile", NoUser, <<userId>>, 200) EXCEPT
                     !.counts = <<FollowersCount(db, userId),
                                  FollowingCount(db, userId)>>])}

\* The Follow rows found, whose follower (followed) relation loads a user.
getUserFollowers(db, userId) ==
    LET found == {f \in db.follows : f.followedId = userId}
        kept == {f \in found : UserExists(db, f.followerId)}
    IN IF found = {}
       THEN {Out(db, Answer("getUserFollowers", NoUser, <<userId>>, 404))}
       ELSE {Out(db, [Answer("getUserFollowers", NoUser, <<userId>>, 200) EXCEPT
                        !.counts = <<Cardinality(kept)>>])}

getUserFollowing(db, userId) ==
    LET found == {f \in db.follows : f.followerId = userId}
        kept == {f \in found : UserExists(db, f.followedId)}
    IN IF found = {}
       THEN {Out(db, Answer("getUserFollowing", NoUser, <<userId>>, 404))}
       ELSE {Out(db, [Answer("getUserFollowing", NoUser, <<userId>>, 200) EXCEPT
                        !.counts = <<Cardinality(kept)>>])}

RECURSIVE SortById(_)
\* The rows of S by ascending id.
SortById(S) ==
    IF S = {} THEN <<>>
    ELSE LET x == CHOOSE r \in S : \A o \in S : r.id <= o.id
         IN <<x>> \o SortById(S \ {x})

RECURSIVE LikeEntries(_, _, _)
\* The response entries of getUserLikes: the id is the Like row's, and
\* hasLiked looks for a Like of the current user whose tweetId is that id.
LikeEntries(db, user, rows) ==
    IF rows = <<>> THEN <<>>
    ELSE <<[id |-> Head(rows).id,
            hasLiked |-> user # NoUser /\ LikeRows(db, user, Head(rows).id) # {}]>>
         \o LikeEntries(db, user, Tail(rows))

getUserLikes(db, user, userId) ==
    LET found == {l \in db.likes : l.userId = userId}
    IN IF ~UserExists(db, userId) \/ found = {}
       THEN {Out(db, Answer("getUserLikes", user, <<userId>>, 404))}
       ELSE {Out(db, [Answer("getUserLikes", user, <<userId>>, 200) EXCEPT
                        !.page = LikeEntries(db, user, SortById(found))])}


\* ------------------------------------------------------ ordering, paging
Min(a, b) == IF a < b THEN a ELSE b

RECURSIVE Orders(_)
\* Every arrangement of the rows of S in a sequence.
Orders(S) ==
    IF S = {} THEN {<<>>}
    ELSE UNION {{<<x>> \o s : s \in Orders(S \ {x})} : x \in S}

\* ORDER BY created_at DESC: every arrangement the database may answer with
\* (rows with equal created_at come in either order).
DescOrders(S) ==
    {s \in Orders(S) :
        \A i \in 1..(Len(s) - 1) : s[i].createdAt >= s[i + 1].createdAt}

\* take and skip of the ORM on an ordered result, both >= 0. The query
\* builder appends LIMIT and OFFSET only for values that are truthy, so
\* take = 0 puts no LIMIT on the query.
Paginate(order, take, skip) ==
    LET rest == SubSeq(order, skip + 1, Len(order))
    IN IF take = 0 THEN rest ELSE SubSeq(rest, 1, Min(take, Len(rest)))

\* ------------------------------------------------------- object storage
\* String.startsWith("image/") on the file types of the model.
StartsWithImage(type) == type \in {"image/png"}

\* The data left when the data-URL prefix matched by the regular expression
\* /^data:(image\/\w+);base64,/ is cut off.
StripPrefix(data) == IF data = "data:image/png;base64,AAAA" THEN "AAAA" ELSE data

\* uploadBase64ToObjectStorage succeeded: the object is stored under the
\* next object url, which is the objectUrl returned.
Uploaded(db, data, type) ==
    [db EXCEPT
       !.storage = @ \cup {[url |-> NextId(db, "objects"), data |-> data, type |-> type]},
       !.seq = Drawn(db, "objects")]

\* ------------------------------------------------------- TweetController
\* hasLiked, had the Like rows been looked up by tweet alone.
HasLikedByAnyone(db, user, tweetId) ==
    user # NoUser /\ \E l \in db.likes : l.tweetId = tweetId

\* likes.some(...) over the Like rows found for the current user.
HasLiked(db, user, tweetId) == user # NoUser /\ LikeRows(db, user, tweetId) # {}

\* tweet.user?.username || "unknown", with the user relation loaded by a
\* left join on user_id.
OwnerName(db, t) ==
    IF UserExists(db, t.userId) THEN UserById(db, t.userId).username ELSE "unknown"

\* One TweetResponse. No operation writes avatar_url, so user.avatarUrl ||
\* null is null.
TweetEntry(db, user, t) ==
    [id |-> t.id, imageUrl |-> t.imageUrl, tweetText |-> t.tweetText,
     createdAt |-> t.createdAt, userId |-> t.userId,
     username |-> OwnerName(db, t), avatarUrl |-> Null,
     hasLiked |-> HasLiked(db, user, t.id)]

RECURSIVE Entries(_, _, _)
\* tweets.map(...): the response entries of a page of Tweet rows.
Entries(db, user, page) ==
    IF page = <<>> THEN <<>>
    ELSE <<TweetEntry(db, user, Head(page))>> \o Entries(db, user, Tail(page))

\* The foreign key user_id and the NOT NULL of image_url (0 stands for NULL).
TweetInsertable(db, userId, imageUrl) == UserExists(db, userId) /\ imageUrl # 0

\* body.tweetText || null
TextOrNull(text) == IF text = "" \/ text = Absent THEN Null ELSE text

\* tweetRepo.save(newTweet): draws an id; the row is written when the
\* constraints accept it.
SaveTweet(db, userId, imageUrl, text) ==
    [db EXCEPT
       !.tweets = IF TweetInsertable(db, userId, imageUrl)
                  THEN @ \cup {[id |-> NextId(db, "tweets"), imageUrl |-> imageUrl,
                                tweetText |-> text, createdAt |-> db.now,
                                userId |-> userId]}
                  ELSE @,
       !.seq = Drawn(db, "tweets")]

\* The response of createTweet for the saved row: { ...savedTweet, username,
\* avatarUrl, hasLiked: false }.
Created(db, id) == [TweetEntry(db, NoUser, TweetById(db, id)) EXCEPT !.hasLiked = FALSE]

\* createTweet, had it saved the tweet under the url it expects without
\* waiting for the upload.
createTweetWithoutUpload(db, user, body) ==
    IF body.imageBase64 = "" \/ ~StartsWithImage(body.imageFileType)
    THEN {Out(db, Answer("createTweet", user, <<>>, 400))}
    ELSE IF user = NoUser
    THEN {Out(db, Answer("createTweet", user, <<>>, 500))}
    ELSE {Out(SaveTweet(db, user, NextId(db, "objects"), TextOrNull(body.tweetText)),
              IF TweetInsertable(db, user, NextId(db, "objects"))
              THEN [Answer("createTweet", user, <<>>, 200) EXCEPT
                      !.page = <<Created(SaveTweet(db, user, NextId(db, "objects"),
                                                   TextOrNull(body.tweetText)),
                                         NextId(db, "tweets"))>>]
              ELSE Answer("createTweet", user, <<>>, 500))}

\* createTweet, had the test of imageFileType been left out.
createTweetAnyFileType(db, user, body) ==
    IF body.imageBase64 = ""
    THEN {Out(db, Answer("createTweet", user, <<>>, 400))}
    ELSE LET up == Uploaded(db, StripPrefix(body.imageBase64), body.imageFileType)
             url == NextId(db, "objects")
         IN \* the upload throws: caught, answered 500
            {Out(db, Answer("createTweet", user, <<>>, 500))}
            \cup
            \* the upload succeeds
            (IF user = NoUser
             THEN \* currentUser.userId throws inside the try block
                  {Out(up, Answer("createTweet", user, <<>>, 500))}
             ELSE {Out(SaveTweet(up, user, url, TextOrNull(body.tweetText)),
                       IF TweetInsertable(up, user, url)
                       THEN [Answer("createTweet", user, <<>>, 200) EXCEPT
                               !.page = <<Created(SaveTweet(up, user, url,
                                                            TextOrNull(body.tweetText)),
                                                  NextId(db, "tweets"))>>]
                       ELSE Answer("createTweet", user, <<>>, 500))})

\* createTweet, had its catch block deleted the uploaded object when the
\* save failed.
createTweetCompensated(db, user, body) ==
    IF body.imageBase64 = "" \/ ~StartsWithImage(body.imageFileType)
    THEN {Out(db, Answer("createTweet", user, <<>>, 400))}
    ELSE LET up == Uploaded(db, StripPrefix(body.imageBase64), body.imageFileType)
             url == NextId(db, "objects")
         IN \* the upload throws: caught, answered 500
            {Out(db, Answer("createTweet", user, <<>>, 500))}
            \cup
            \* the upload succeeds
            (IF user = NoUser
             THEN \* currentUser.userId throws inside the try block
                  {Out(up, Answer("createTweet", user, <<>>, 500))}
             ELSE {Out(IF TweetInsertable(up, user, url)
                       THEN SaveTweet(up, user, url, TextOrNull(body.tweetText))
                       ELSE [SaveTweet(up, user, url, TextOrNull(body.tweetText))
                               EXCEPT !.storage = db.storage],
                       IF TweetInsertable(up, user, url)
                       THEN [Answer("createTweet", user, <<>>, 200) EXCEPT
                               !.page = <<Created(SaveTweet(up, user, url,
                                                            TextOrNull(body.tweetText)),
                                                  NextId(db, "tweets"))>>]
                       ELSE Answer("createTweet", user, <<>>, 500))})

createTweet(db, user, body) ==
    IF body.imageBase64 = "" \/ ~StartsWithImage(body.imageFileType)
    THEN {Out(db, Answer("createTweet", user, <<>>, 400))}
    ELSE LET up == Uploaded(db, StripPrefix(body.imageBase64), body.imageFileType)
             url == NextId(db, "objects")
         IN \* the upload throws: caught, answered 500
            {Out(db, Answer("createTweet", user, <<>>, 500))}
            \cup
            \* the upload succeeds
            (IF user = NoUser
             THEN \* currentUser.userId throws inside the try block
                  {Out(up, Answer("createTweet", user, <<>>, 500))}
             ELSE {Out(SaveTweet(up, user, url, TextOrNull(body.tweetText)),
                       IF TweetInsertable(up, user, url)
                       THEN [Answer("createTweet", user, <<>>, 200) EXCEPT
                               !.page = <<Created(SaveTweet(up, user, url,
                                                            TextOrNull(body.tweetText)),
                                                  NextId(db, "tweets"))>>]
                       ELSE Answer("createTweet", user, <<>>, 500))})

\* The rows a feed page keeps: tweet.user !== null && tweet.imageUrl !== null.
FeedKept(db, t) == UserExists(db, t.userId) /\ t.imageUrl # 0

getFeedTweets(db, user, limit, offset) ==
    IF limit < 0 \/ offset < 0
    THEN \* the database refuses a negative LIMIT or OFFSET
         {Out(db, Threw("getFeedTweets", user, <<limit, offset>>, "QueryFailedError"))}
    ELSE {Out(db, [Answer("getFeedTweets", user, <<limit, offset>>, 200) EXCEPT
                     !.page = Entries(db, user,
                                SelectSeq(Paginate(order, limit, offset),
                                          LAMBDA t : FeedKept(db, t)))]) :
            order \in DescOrders(db.tweets)}

\* The words of a text or of a query, as to_tsvector and plainto_tsquery
\* see them.
Words(text) ==
    CASE text = "cat" -> {"cat"}
      [] text = "dog" -> {"dog"}
      [] OTHER -> {}

\* !query.trim()
Blank(query) == query \in {"", " "}

\* to_tsvector(tweet_text) @@ plainto_tsquery(:query); a NULL text matches
\* nothing.
Matches(t, query) ==
    t.tweetText # Null /\ Words(query) \subseteq Words(t.tweetText)

searchTweets(db, user, query, limit, offset) ==
    IF Blank(query)
    THEN {Out(db, Answer("searchTweets", user, <<limit, offset>>, 400))}
    ELSE IF limit < 0 \/ offset < 0
    THEN {Out(db, Threw("searchTweets", user, <<limit, offset>>, "QueryFailedError"))}
    ELSE {Out(db, [Answer("searchTweets", user, <<limit, offset>>, 200) EXCEPT
                     !.page = Entries(db, user, Paginate(order, limit, offset))]) :
            order \in DescOrders({t \in db.tweets : Matches(t, query)})}

\* getTweetById, had findOne been given no where clause: it takes the first
\* row it finds.
getTweetByIdAnyRow(db, user, tweetId) ==
    IF db.tweets = {}
    THEN {Out(db, Answer("getTweetById", user, <<tweetId>>, 404))}
    ELSE {Out(db, [Answer("getTweetById", user, <<tweetId>>, 200) EXCEPT
                     !.page = <<TweetEntry(db, user, t)>>]) : t \in db.tweets}

getTweetById(db, user, tweetId) ==
    IF ~TweetExists(db, tweetId)
    THEN {Out(db, Answer("getTweetById", user, <<tweetId>>, 404))}
    ELSE {Out(db, [Answer("getTweetById", user, <<tweetId>>, 200) EXCEPT
                     !.page = <<TweetEntry(db, user, TweetById(db, tweetId))>>])}

\* ------------------------------------------------- InteractionController
\* likeTweet, had it looked for a Like row of the user on the tweet first.
likeTweetOnce(db, user, tweetId) ==
    IF ~TweetExists(db, tweetId)
    THEN {Out(db, Answer("likeTweet", user, <<tweetId>>, 404))}
    ELSE IF ~UserExists(db, user)
    THEN {Out(db, Threw("likeTweet", user, <<tweetId>>, "Error"))}
    ELSE IF LikeRows(db, user, tweetId) # {}
    THEN {Out(db, Answer("likeTweet", user, <<tweetId>>, 409))}
    ELSE {Out([db EXCEPT
                 !.likes = @ \cup {[id |-> NextId(db, "likes"), userId |-> user,
                                    tweetId |-> tweetId]},
                 !.seq = Drawn(db, "likes")],
              Answer("likeTweet", user, <<tweetId>>, 201))}

\* likeTweet, had the current user been looked up before the tweet.
likeTweetUserFirst(db, user, tweetId) ==
    IF ~UserExists(db, user)
    THEN {Out(db, Threw("likeTweet", user, <<tweetId>>, "Error"))}
    ELSE IF ~TweetExists(db, tweetId)
    THEN {Out(db, Answer("likeTweet", user, <<tweetId>>, 404))}
    ELSE {Out([db EXCEPT
                 !.likes = @ \cup {[id |-> NextId(db, "likes"), userId |-> user,
                                    tweetId |-> tweetId]},
                 !.seq = Drawn(db, "likes")],
              Answer("likeTweet", user, <<tweetId>>, 201))}

likeTweet(db, user, tweetId) ==
    IF ~TweetExists(db, tweetId)
    THEN {Out(db, Answer("likeTweet", user, <<tweetId>>, 404))}
    ELSE IF ~UserExists(db, user)
    THEN {Out(db, Threw("likeTweet", user, <<tweetId>>, "Error"))}
    ELSE {Out([db EXCEPT
                 !.likes = @ \cup {[id |-> NextId(db, "likes"), userId |-> user,
                                    tweetId |-> tweetId]},
                 !.seq = Drawn(db, "likes")],
              Answer("likeTweet", user, <<tweetId>>, 201))}

\* An unlike that takes the liked tweet away with the Like rows.
unlikeTweetWithTweet(db, user, tweetId) ==
    {Out([db EXCEPT !.likes = @ \ LikeRows(db, user, tweetId),
                    !.tweets = IF LikeRows(db, user, tweetId) = {} THEN @
                               ELSE {t \in @ : t.id # tweetId}],
         [Answer("unlikeTweet", user, <<tweetId>>, 200) EXCEPT
            !.counts = <<Cardinality(LikeRows(db, user, tweetId))>>])}

\* An unlike that finds one Like row of the pair and removes that row.
unlikeTweetOneRow(db, user, tweetId) ==
    IF LikeRows(db, user, tweetId) = {}
    THEN {Out(db, [Answer("unlikeTweet", user, <<tweetId>>, 200) EXCEPT
                     !.counts = <<0>>])}
    ELSE {Out([db EXCEPT !.likes = @ \ {l}],
              [Answer("unlikeTweet", user, <<tweetId>>, 200) EXCEPT
                 !.counts = <<1>>]) : l \in LikeRows(db, user, tweetId)}

\* Like repository delete({ tweetId, userId }): every row of the pair goes;
\* counts holds the number of rows the delete affected.
unlikeTweet(db, user, tweetId) ==
    {Out([db EXCEPT !.likes = @ \ LikeRows(db, user, tweetId)],
         [Answer("unlikeTweet", user, <<tweetId>>, 200) EXCEPT
            !.counts = <<Cardinality(LikeRows(db, user, tweetId))>>])}

createComment(db, user, tweetId, body) ==
    IF ~TweetExists(db, tweetId)
    THEN {Out(db, Answer("createComment", user, <<tweetId>>, 404))}
    ELSE IF ~UserExists(db, user)
    THEN {Out(db, Threw("createComment", user, <<tweetId>>, "Error"))}
    ELSE {Out([db EXCEPT
                 !.comments = @ \cup {[id |-> NextId(db, "comments"),
                                       content |-> body.text, createdAt |-> db.now,
                                       userId |-> user, tweetId |-> tweetId]},
                 !.seq = Drawn(db, "comments")],
              [Answer("createComment", user, <<tweetId>>, 201) EXCEPT
                 !.counts = <<NextId(db, "comments")>>])}

RECURSIVE Ids(_)
Ids(rows) == IF rows = <<>> THEN <<>> ELSE <<Head(rows).id>> \o Ids(Tail(rows))

getComments(db, tweetId, limit, offset) ==
    IF ~TweetExists(db, tweetId)
    THEN {Out(db, Answer("getComments", NoUser, <<tweetId, limit, offset>>, 404))}
    ELSE IF limit < 0 \/ offset < 0
    THEN {Out(db, Threw("getComments", NoUser, <<tweetId, limit, offset>>,
                        "QueryFailedError"))}
    ELSE {Out(db, [Answer("getComments", NoUser, <<tweetId, limit, offset>>, 200) EXCEPT
                     !.counts = Ids(Paginate(order, limit, offset))]) :
            order \in DescOrders({c \in db.comments : c.tweetId = tweetId})}


\* ------------------------------------------------------ generated router
\* Raw path and query values as they arrive in the URL, and raw body
\* properties.
PathRaw == {"1", "2", "abc"}
LimitRaw == {Absent, "0", "1", "-1", "abc"}
OffsetRaw == {Absent, "1", "-1", "abc"}
PageRaw == {Absent, "1", "abc"}
QueryRaw == {Absent, " ", "cat", "dog"}
ImageBase64Raw == {"", "AAAA", "data:image/png;base64,AAAA"}
ImageFileTypeRaw == {Absent, "image/png", "text/plain"}
TweetTextRaw == {Absent, "", "cat"}
CommentTextRaw == {Absent, "nice"}

\* The rows of the tables that requests fill.
Rows(db) ==
    Cardinality(db.tweets) + Cardinality(db.comments) + Cardinality(db.likes)
        + Cardinality(db.follows)

WithinBounds(db) ==
    /\ db.seq.users <= MaxUserId
    /\ db.seq.tweets <= MaxTweetId
    /\ db.seq.comments <= MaxCommentId
    /\ db.seq.likes <= MaxLikeId
    /\ db.seq.follows <= MaxFollowId
    /\ db.seq.objects <= MaxObjectId

\* One outcome takes effect.
Apply(o) ==
    /\ WithinBounds(o.db)
    /\ users' = o.db.users
    /\ tweets' = o.db.tweets
    /\ comments' = o.db.comments
    /\ likes' = o.db.likes
    /\ follows' = o.db.follows
    /\ seq' = o.db.seq
    /\ storage' = o.db.storage
    /\ res' = o.ans
    /\ UNCHANGED <<now, initPc, initI, dispatched, calls>>

\* getValidatedArgs threw: the catch of the generated handler passes the
\* error to next; no controller was constructed.
Rejected(op) ==
    Out(Cur, [Answer(op, NoUser, <<>>, 0) EXCEPT
                !.valid = FALSE, !.err = "ValidateError", !.invoked = FALSE,
                !.nextCalls = 1])

\* A generated handler that constructs the controller and invokes the method
\* whatever getValidatedArgs found.
RouteUnvalidated(op, valid, outcomes) ==
    \E o \in outcomes : Apply([o EXCEPT !.ans.valid = valid])

\* The body shared by every generated handler: validate the arguments, then
\* construct the controller and invoke its method through apiHandler.
Route(op, valid, outcomes) ==
    IF valid
    THEN \E o \in outcomes : Apply(o)
    ELSE Apply(Rejected(op))

CreateTweetRequest(user, body) ==
    Route("createTweet", ValidCreateTweetBody(body), createTweet(Cur, user, body))

TweetController_createTweet ==
    \E user \in ReqUsers, b64 \in ImageBase64Raw, type \in ImageFileTypeRaw,
       text \in TweetTextRaw :
        CreateTweetRequest(user, [imageBase64 |-> b64, imageFileType |-> type,
                                  tweetText |-> text])

GetFeedTweetsRequest(user, limit, offset) ==
    Route("getFeedTweets", ValidQueryNum(limit) /\ ValidQueryNum(offset),
          getFeedTweets(Cur, user, QueryNum(limit, DefaultLimit),
                        QueryNum(offset, DefaultOffset)))

TweetController_getFeedTweets ==
    \E user \in ReqUsers, limit \in LimitRaw, offset \in OffsetRaw :
        GetFeedTweetsRequest(user, limit, offset)

SearchTweetsRequest(user, query, limit, offset) ==
    Route("searchTweets",
          ValidRequiredString(query) /\ ValidQueryNum(limit) /\ ValidQueryNum(offset),
          searchTweets(Cur, user, query, QueryNum(limit, DefaultLimit),
                       QueryNum(offset, DefaultOffset)))

TweetController_searchTweets ==
    \E user \in ReqUsers, query \in QueryRaw, limit \in PageRaw, offset \in PageRaw :
        SearchTweetsRequest(user, query, limit, offset)

GetTweetByIdRequest(user, tweetId) ==
    Route("getTweetById", ValidPath(tweetId),
          getTweetById(Cur, user, ToNumber(tweetId)))

TweetController_getTweetById ==
    \E user \in ReqUsers, tweetId \in PathRaw : GetTweetByIdRequest(user, tweetId)

FollowUserRequest(user, userIdToFollow) ==
    Route("followUser", ValidPath(userIdToFollow),
          followUser(Cur, user, ToNumber(userIdToFollow)))

UserController_followUser ==
    \E user \in ReqUsers, userIdToFollow \in PathRaw :
        FollowUserRequest(user, userIdToFollow)

UnfollowUserRequest(user, userIdToUnfollow) ==
    Route("unfollowUser", ValidPath(userIdToUnfollow),
          unfollowUser(Cur, user, ToNumber(userIdToUnfollow)))

UserController_unfollowUser ==
    \E user \in ReqUsers, userIdToUnfollow \in PathRaw :
        UnfollowUserRequest(user, userIdToUnfollow)

GetUserProfileRequest(userId) ==
    Route("getUserProfile", ValidPath(userId), getUserProfile(Cur, ToNumber(userId)))

UserController_getUserProfile ==
    \E userId \in PathRaw : GetUserProfileRequest(userId)

GetUserFollowersRequest(userId) ==
    Route("getUserFollowers", ValidPath(userId),
          getUserFollowers(Cur, ToNumber(userId)))

UserController_getUserFollowers ==
    \E userId \in PathRaw : GetUserFollowersRequest(userId)

GetUserFollowingRequest(userId) ==
    Route("getUserFollowing", ValidPath(userId),
          getUserFollowing(Cur, ToNumber(userId)))

UserController_getUserFollowing ==
    \E userId \in PathRaw : GetUserFollowingRequest(userId)

GetUserLikesRequest(user, userId) ==
    Route("getUserLikes", ValidPath(userId),
          getUserLikes(Cur, user, ToNumber(userId)))

UserController_getUserLikes ==
    \E user \in ReqUsers, userId \in PathRaw : GetUserLikesRequest(user, userId)

\* The routes of InteractionController take the current user from
\* getCurrentUser().
LikeTweetRequest(user, tweetId) ==
    Route("likeTweet", ValidPath(tweetId), likeTweet(Cur, user, ToNumber(tweetId)))

InteractionController_likeTweet ==
    \E user \in CurrentUserIds, tweetId \in PathRaw : LikeTweetRequest(user, tweetId)

UnlikeTweetRequest(user, tweetId) ==
    Route("unlikeTweet", ValidPath(tweetId), unlikeTweet(Cur, user, ToNumber(tweetId)))

InteractionController_unlikeTweet ==
    \E user \in CurrentUserIds, tweetId \in PathRaw : UnlikeTweetRequest(user, tweetId)

CreateCommentRequest(user, tweetId, body) ==
    Route("createComment", ValidPath(tweetId) /\ ValidCreateCommentBody(body),
          createComment(Cur, user, ToNumber(tweetId), body))

InteractionController_createComment ==
    \E user \in CurrentUserIds, tweetId \in PathRaw, text \in CommentTextRaw :
        CreateCommentRequest(user, tweetId, [text |-> text])

GetCommentsRequest(tweetId, limit, offset) ==
    Route("getComments",
          ValidPath(tweetId) /\ ValidQueryNum(limit) /\ ValidQueryNum(offset),
          getComments(Cur, ToNumber(tweetId), QueryNum(limit, DefaultLimit),
                      QueryNum(offset, DefaultOffset)))

InteractionController_getComments ==
    \E tweetId \in PathRaw, limit \in PageRaw, offset \in PageRaw :
        GetCommentsRequest(tweetId, limit, offset)

\* ------------------------------------------------------ AuthController
\* Registration inserts a User row with a generated id; the primary key and
\* the unique constraints decide whether the row is written.
RegisterUsernames == {ADMIN_USERNAME, "alice"}
RegisterEmails == {GUEST_EMAIL, "alice@x.org"}

register(db, username, email) ==
    LET row == [id |-> NextId(db, "users"), username |-> username, email |-> email]
    IN IF ~UserExists(db, row.id) /\ UserUnique(row, db.users)
       THEN {Out([db EXCEPT !.users = @ \cup {row}, !.seq = Drawn(db, "users")],
                 Answer("register", NoUser, <<row.id>>, 201))}
       ELSE {Out([db EXCEPT !.seq = Drawn(db, "users")],
                 Answer("register", NoUser, <<row.id>>, 409))}

AuthController_register ==
    \E username \in RegisterUsernames, email \in RegisterEmails :
        \E o \in register(Cur, username, email) : Apply(o)

\* -------------------------------------------------- initializeDatabase
\* repo.save of a user created with a fixed id: the row with that id is
\* updated if there is one and inserted otherwise; the unique constraints
\* refuse a username or an email another row holds.
SaveUserAccepted(db, row) == UserUnique(row, {u \in db.users : u.id # row.id})

SaveUser(db, row) ==
    [db EXCEPT !.users = {u \in @ : u.id # row.id} \cup {row}]

\* The script threw: the process reports the error and exits.
ScriptFailed(err) ==
    /\ initPc' = "idle"
    /\ res' = [Answer("initializeDatabase", NoUser, <<>>, 0) EXCEPT
                 !.err = err, !.invoked = FALSE]

\* AppDataSource.initialize(), CREATE SCHEMA IF NOT EXISTS, synchronize()
\* and CREATE INDEX IF NOT EXISTS of a further run of the script.
InitStart ==
    /\ initPc = "idle"
    /\ seq.tweets + InitDataLen <= MaxTweetId
    /\ seq.objects + InitDataLen <= MaxObjectId
    /\ initPc' = "admin"
    /\ res' = [Answer("initializeDatabase", NoUser, <<>>, 0) EXCEPT !.invoked = FALSE]
    /\ UNCHANGED <<users, tweets, comments, likes, follows, seq, storage, now,
                   initI, dispatched, calls>>

InitSaveAdmin ==
    LET row == [id |-> ADMIN_USER_ID, username |-> ADMIN_USERNAME, email |-> ADMIN_EMAIL]
    IN /\ initPc = "admin"
       /\ IF SaveUserAccepted(Cur, row)
          THEN /\ users' = SaveUser(Cur, row).users
               /\ initPc' = "guest"
               /\ res' = [Answer("initializeDatabase", NoUser, <<row.id>>, 0) EXCEPT
                            !.invoked = FALSE]
          ELSE /\ ScriptFailed("QueryFailedError")
               /\ users' = users
       /\ UNCHANGED <<tweets, comments, likes, follows, seq, storage, now, initI,
                      dispatched, calls>>

InitSaveGuest ==
    LET row == [id |-> GUEST_USER_ID, username |-> GUEST_USERNAME, email |-> GUEST_EMAIL]
    IN /\ initPc = "guest"
       /\ IF SaveUserAccepted(Cur, row)
          THEN /\ users' = SaveUser(Cur, row).users
               /\ initPc' = IF InitDataLen = 0 THEN "idle" ELSE "tweets"
               /\ initI' = 0
               /\ res' = [Answer("initializeDatabase", NoUser, <<row.id>>, 0) EXCEPT
                            !.invoked = FALSE]
          ELSE /\ ScriptFailed("QueryFailedError")
               /\ users' = users
               /\ initI' = initI
       /\ UNCHANGED <<tweets, comments, likes, follows, seq, storage, now, dispatched,
                      calls>>

\* The text of row i of data.json.
InitText(i) == "cat"

\* One turn of the loop over the init data: upload image i, then save the
\* tweet under the admin user with createdAt = new Date().
InitTweet ==
    /\ initPc = "tweets"
    /\ initI < InitDataLen
    /\ \/ \* the upload throws
          /\ ScriptFailed("UploadError")
          /\ UNCHANGED <<tweets, seq, storage, initI>>
       \/ \* the upload succeeds and the tweet is saved
          LET up == Uploaded(Cur, "AAAA", "image/jpeg")
              saved == SaveTweet(up, ADMIN_USER_ID, NextId(Cur, "objects"),
                                 TextOrNull(InitText(initI)))
          IN /\ WithinBounds(saved)
             /\ tweets' = saved.tweets
             /\ seq' = saved.seq
             /\ storage' = saved.storage
             /\ initI' = initI + 1
             /\ initPc' = IF initI + 1 = InitDataLen THEN "idle" ELSE "tweets"
             /\ res' = [Answer("initializeDatabase", NoUser, <<initI>>, 0) EXCEPT
                          !.invoked = FALSE]
    /\ UNCHANGED <<users, comments, likes, follows, now, dispatched, calls>>

\* Time passes.
Tick ==
    /\ now < MaxClock
    /\ now' = now + 1
    /\ UNCHANGED <<users, tweets, comments, likes, follows, seq, storage,
                   initPc, initI, dispatched, res, calls>>

\* ---------------------------------------------------------------- Init
\* The schema has just been synchronised for the first time: the tables
\* exist and are empty, and the script is about to save the admin user.
Init ==
    /\ users = {}
    /\ tweets = {}
    /\ comments = {}
    /\ likes = {}
    /\ follows = {}
    /\ seq = [users |-> 0, tweets |-> 0, comments |-> 0, likes |-> 0,
              follows |-> 0, objects |-> 0]
    /\ storage = {}
    /\ now = 0
    /\ initPc = "admin"
    /\ initI = 0
    /\ dispatched = [method |-> "none", path |-> <<>>, handler |-> "none"]
    /\ res = NoAnswer
    /\ calls = [c \in Calls |-> IdleCall]

Script == InitStart \/ InitSaveAdmin \/ InitSaveGuest \/ InitTweet

\* Users and follows.
NextFollow ==
    \/ Script
    \/ UserController_followUser
    \/ UserController_unfollowUser
    \/ UserController_getUserProfile
    \/ UserController_getUserFollowers
    \/ UserController_getUserFollowing

SpecFollow == Init /\ [][NextFollow]_vars


\* ============================================================ properties

\* C1: followUser with userIdToFollow equal to the authenticated user's id
\* answers 400 and leaves the Follow table as it was, and in every reachable
\* state no Follow row has followerId = followedId.
NoSelfFollowRow == \A f \in follows : f.followerId # f.followedId

SelfFollowRejected ==
    (/\ res'.op = "followUser"
     /\ res'.invoked
     /\ res'.user # NoUser
     /\ res'.nums = <<res'.user>>)
    => (res'.status = 400 /\ follows' = follows)

C1_SelfFollowRejected == [](NoSelfFollowRow) /\ [][SelfFollowRejected]_vars

\* A user that exists has just been refused to follow itself, while the
\* Follow table holds rows.
C1_Witness ==
    /\ res.op = "followUser"
    /\ res.status = 400
    /\ res.nums = <<res.user>>
    /\ UserExists(Cur, res.user)
    /\ follows # {}


\* C8: getUserProfile(u) answers 404 when no user u exists and otherwise
\* reports followers = the number of Follow rows with followedId = u and
\* following = the number of Follow rows with followerId = u; a successful
\* followUser by A on B raises B's followers and A's following by exactly 1
\* and leaves A's followers and B's following unchanged.
FollowedBy(rows, u) == Cardinality({f \in rows : f.followedId = u})
FollowsOf(rows, u) == Cardinality({f \in rows : f.followerId = u})

ProfileAnswered ==
    (res.op = "getUserProfile" /\ res.invoked) =>
        LET u == res.nums[1]
        IN IF \A r \in users : r.id # u
           THEN res.status = 404
           ELSE /\ res.status = 200
                /\ res.counts = <<FollowedBy(follows, u), FollowsOf(follows, u)>>

FollowCounted ==
    (res'.op = "followUser" /\ res'.status = 200) =>
        LET a == res'.user
            b == res'.nums[1]
        IN /\ FollowedBy(follows', b) = FollowedBy(follows, b) + 1
           /\ FollowsOf(follows', a) = FollowsOf(follows, a) + 1
           /\ FollowedBy(follows', a) = FollowedBy(follows, a)
           /\ FollowsOf(follows', b) = FollowsOf(follows, b)

C8_ProfileCounts == [](ProfileAnswered) /\ [][FollowCounted]_vars

\* A profile was answered for a user who has followers but follows fewer
\* users than follow it.
C8_Witness ==
    /\ res.op = "getUserProfile"
    /\ res.status = 200
    /\ res.counts[1] >= 1
    /\ res.counts[2] < res.counts[1]


\* Tweets of the script, and likes.
NextLike ==
    \/ Script
    \/ InteractionController_likeTweet
    \/ InteractionController_unlikeTweet
    \/ UserController_getUserLikes

SpecLike == Init /\ [][NextLike]_vars

\* C2: likeTweet does no existence check and nothing makes (userId, tweetId)
\* unique: every likeTweet of an existing current user on an existing tweet
\* succeeds and adds one Like row for that pair, also when the pair already
\* has a row, so two such requests leave two rows with the same pair.
LikesOf(rows, u, t) == Cardinality({l \in rows : l.userId = u /\ l.tweetId = t})

LikeAlwaysInserts ==
    (/\ res'.op = "likeTweet"
     /\ res'.invoked
     /\ \E t \in tweets : t.id = res'.nums[1]
     /\ \E u \in users : u.id = res'.user)
    => /\ res'.status = 201
       /\ LikesOf(likes', res'.user, res'.nums[1])
            = LikesOf(likes, res'.user, res'.nums[1]) + 1

C2_DuplicateLikes == [][LikeAlwaysInserts]_vars

\* The second of two likeTweet requests of one user on one tweet has just
\* succeeded: two Like rows hold the same (userId, tweetId).
C2_Witness ==
    /\ res.op = "likeTweet"
    /\ res.status = 201
    /\ \E l1, l2 \in likes :
          /\ l1.id # l2.id
          /\ l1.userId = l2.userId
          /\ l1.tweetId = l2.tweetId
          /\ l1.userId = res.user
          /\ l1.tweetId = res.nums[1]


\* Tweets: the script, createTweet and the reading of one tweet.
NextTweet ==
    \/ Script
    \/ Tick
    \/ TweetController_createTweet
    \/ TweetController_getTweetById

SpecTweet == Init /\ [][NextTweet]_vars

\* The feed over the tweets of the script and of createTweet.
NextFeed ==
    \/ Script
    \/ Tick
    \/ TweetController_createTweet
    \/ TweetController_getFeedTweets

SpecFeed == Init /\ [][NextFeed]_vars

\* C3: every Tweet row has a non-null imageUrl that is the objectUrl of an
\* object a successful upload stored for that tweet, and no step inserts a
\* Tweet row without storing its object in the same operation.
ObjectUrls(objects) == {o.url : o \in objects}

ImageUrlUploaded ==
    /\ \A t \in tweets : t.imageUrl # 0 /\ t.imageUrl \in ObjectUrls(storage)
    /\ \A t1, t2 \in tweets : t1.imageUrl = t2.imageUrl => t1 = t2

InsertAfterUpload ==
    \A t \in tweets' \ tweets :
        t.imageUrl \in ObjectUrls(storage') \ ObjectUrls(storage)

C3_ImageUrlRequired == [](ImageUrlUploaded) /\ [][InsertAfterUpload]_vars

\* The table holds a tweet saved by initializeDatabase and one saved by
\* createTweet, each with its own uploaded object.
C3_Witness ==
    /\ res.op = "createTweet"
    /\ res.status = 200
    /\ \E t1, t2 \in tweets, o1, o2 \in storage :
          /\ o1.url = t1.imageUrl /\ o1.type = "image/jpeg"
          /\ o2.url = t2.imageUrl /\ o2.type = "image/png"

\* C4: a POST /api/v1/tweets request with a valid image and no text
\* (tweetText absent or empty) is accepted by the router's argument
\* validation and by createTweet, and the tweet is stored with
\* tweetText = null.
NoTextAccepted ==
    \A user \in UserIds, b64 \in {"AAAA", "data:image/png;base64,AAAA"},
       text \in {Absent, ""} :
        CreateTweetRequest(user, [imageBase64 |-> b64, imageFileType |-> "image/png",
                                  tweetText |-> text])
        => /\ res'.valid
           /\ res'.invoked
           /\ res'.status # 400
           /\ res'.status = 200 => \E t \in tweets' \ tweets : t.tweetText = Null

C4_TextOptional == [][NoTextAccepted]_vars

\* C5: getFeedTweets returns tweets in non-increasing createdAt order, taken
\* from positions offset to offset+limit-1 of the full descending ordering
\* (limit defaults to 10, offset to 0), hence at most limit tweets, and a
\* tweet created later than every other tweet comes first in the page at
\* offset 0.
IsDescending(s) == \A i \in 1..(Len(s) - 1) : s[i].createdAt >= s[i + 1].createdAt

IsFullOrdering(s) ==
    /\ Len(s) = Cardinality(tweets)
    /\ {s[i] : i \in 1..Len(s)} = tweets
    /\ IsDescending(s)

PageIds(page) == [i \in 1..Len(page) |-> page[i].id]

FeedPageOf(limit, offset, page) ==
    /\ Len(page) <= limit
    /\ \E s \in Orders(tweets) :
          /\ IsFullOrdering(s)
          /\ PageIds(page) = PageIds(SubSeq(s, offset + 1, Min(offset + limit, Len(s))))
    /\ \A t \in tweets :
          (offset = 0 /\ \A o \in tweets \ {t} : o.createdAt < t.createdAt)
          => (page # <<>> /\ page[1].id = t.id)

FeedAnswered ==
    (res.op = "getFeedTweets" /\ res.status = 200)
    => FeedPageOf(res.nums[1], res.nums[2], res.page)

FeedDefaults ==
    \A user \in ReqUsers :
        GetFeedTweetsRequest(user, Absent, Absent) => res'.nums = <<10, 0>>

C5_FeedPage == [](FeedAnswered) /\ [][FeedDefaults]_vars


\* ------------------------------------------------------------ the server
\* Every registered route, each taking requests of one signed-in caller and
\* of an anonymous one, with each argument present and well-formed, absent,
\* or malformed, over the database the script fills.
Callers == {NoUser, ADMIN_USER_ID}
IdArgs == {"1", "2", "abc"}
NumArgs == {Absent, "abc"}
BodyArgs ==
    {[imageBase64 |-> b64, imageFileType |-> "image/png", tweetText |-> text] :
        b64 \in {Absent, "AAAA"}, text \in {Absent, "cat"}}

\* The server is followed while the tables hold at most MaxRows rows and
\* the store at most MaxUploads objects.
Budget == Rows(Cur) <= MaxRows /\ seq.objects <= MaxUploads

Next ==
    \/ Script /\ Budget'
    \/ /\ \E user \in Callers, body \in BodyArgs : CreateTweetRequest(user, body)
       /\ Budget'
    \/ /\ \E user \in Callers, limit \in NumArgs :
             GetFeedTweetsRequest(user, limit, Absent)
       /\ Budget'
    \/ /\ \E user \in Callers, query \in {Absent, " ", "cat"} :
             SearchTweetsRequest(user, query, Absent, Absent)
       /\ Budget'
    \/ /\ \E user \in Callers, tweetId \in IdArgs : GetTweetByIdRequest(user, tweetId)
       /\ Budget'
    \/ /\ \E user \in Callers, userId \in IdArgs : FollowUserRequest(user, userId)
       /\ Budget'
    \/ /\ \E user \in Callers, userId \in IdArgs : UnfollowUserRequest(user, userId)
       /\ Budget'
    \/ /\ \E userId \in IdArgs : GetUserProfileRequest(userId)
       /\ Budget'
    \/ /\ \E userId \in IdArgs : GetUserFollowersRequest(userId)
       /\ Budget'
    \/ /\ \E userId \in IdArgs : GetUserFollowingRequest(userId)
       /\ Budget'
    \/ /\ \E user \in Callers, userId \in IdArgs : GetUserLikesRequest(user, userId)
       /\ Budget'
    \/ /\ \E tweetId \in IdArgs : LikeTweetRequest(ADMIN_USER_ID, tweetId)
       /\ Budget'
    \/ /\ \E tweetId \in IdArgs : UnlikeTweetRequest(ADMIN_USER_ID, tweetId)
       /\ Budget'
    \/ /\ \E tweetId \in IdArgs, text \in {Absent, "nice"} :
             CreateCommentRequest(ADMIN_USER_ID, tweetId, [text |-> text])
       /\ Budget'
    \/ /\ \E tweetId \in IdArgs, limit \in NumArgs :
             GetCommentsRequest(tweetId, limit, Absent)
       /\ Budget'

Spec == Init /\ [][Next]_vars

\* Users: the script and registration.
NextUsers ==
    \/ Script
    \/ AuthController_register
    \/ UserController_getUserProfile

SpecUsers == Init /\ [][NextUsers]_vars


\* C7: no two User rows share a username, an email or an id, in every state
\* of registrations interleaved with runs of initializeDatabase saving the
\* admin and guest users with fixed ids.
C7_UsersUnique ==
    \A u1, u2 \in users :
        u1 # u2 => /\ u1.username # u2.username
                   /\ u1.email # u2.email
                   /\ u1.id # u2.id

\* A run of the script was refused a save by a unique constraint: a
\* registered user holds the name or the email under another id.
C7_Witness ==
    /\ res.op = "initializeDatabase"
    /\ res.err = "QueryFailedError"
    /\ Cardinality(users) = 2
    /\ \E u \in users : u.username = ADMIN_USERNAME \/ u.email = GUEST_EMAIL

\* C6: a step of a request handler leaves every User, Tweet and Comment row
\* in place and unmodified; Like rows go only in unlikeTweet and Follow rows
\* only in unfollowUser.
Persist ==
    res'.op # "initializeDatabase" =>
        /\ users \subseteq users'
        /\ tweets \subseteq tweets'
        /\ comments \subseteq comments'
        /\ (likes \ likes' # {}) => res'.op = "unlikeTweet"
        /\ (follows \ follows' # {}) => res'.op = "unfollowUser"

C6_EntitiesPersist == [][Persist]_vars

\* unlikeTweet has removed the only Like row and the liked tweet is still
\* stored.
C6_Witness ==
    /\ res.op = "unlikeTweet"
    /\ res.valid
    /\ likes = {}
    /\ seq.likes >= 1
    /\ \E t \in tweets : t.id = res.nums[1]

\* C9: a request whose arguments fail validation never reaches the
\* controller method, is passed to next exactly once, and leaves every table,
\* sequence and stored object as it was.
RejectedUnhandled ==
    ~res.valid => /\ ~res.invoked
                  /\ res.nextCalls = 1
                  /\ res.err = "ValidateError"
                  /\ res.status = 0

RejectedFrame ==
    ~res'.valid => UNCHANGED <<users, tweets, comments, likes, follows, seq, storage>>

C9_ValidateFirst == [](RejectedUnhandled) /\ [][RejectedFrame]_vars

\* A followUser request with a malformed id was rejected while a Follow row
\* and a tweet are stored.
C9_Witness ==
    /\ res.op = "followUser"
    /\ ~res.valid
    /\ follows # {}
    /\ tweets # {}


\* ------------------------------------------------------------- dispatch
\* A pattern segment: a literal, or a named parameter (":tweetId").
Lit(text) == [param |-> FALSE, text |-> text]
Param(name) == [param |-> TRUE, text |-> name]

Prefix == <<Lit("api"), Lit("v1")>>

RouteOf(method, tail, handler) ==
    [method |-> method, pattern |-> Prefix \o tail, handler |-> handler]

\* RegisterRoutes: the app.post, app.get and app.delete calls in the order
\* they are made, first those of TweetController.
TweetRoutes ==
    << RouteOf("POST", <<Lit("tweets")>>, "TweetController_createTweet"),
       RouteOf("GET", <<Lit("tweets")>>, "TweetController_getFeedTweets"),
       RouteOf("GET", <<Lit("tweets"), Lit("search")>>, "TweetController_searchTweets"),
       RouteOf("GET", <<Lit("tweets"), Param("tweetId")>>, "TweetController_getTweetById") >>

UserRoutes ==
    << RouteOf("POST", <<Lit("users"), Param("userIdToFollow"), Lit("follow")>>,
               "UserController_followUser"),
       RouteOf("DELETE", <<Lit("users"), Param("userIdToUnfollow"), Lit("unfollow")>>,
               "UserController_unfollowUser"),
       RouteOf("GET", <<Lit("users"), Param("userId"), Lit("profile")>>,
               "UserController_getUserProfile"),
       RouteOf("GET", <<Lit("users"), Param("userId"), Lit("followers")>>,
               "UserController_getUserFollowers"),
       RouteOf("GET", <<Lit("users"), Param("userId"), Lit("following")>>,
               "UserController_getUserFollowing"),
       RouteOf("GET", <<Lit("users"), Param("userId"), Lit("likes")>>,
               "UserController_getUserLikes") >>

InteractionRoutes ==
    << RouteOf("POST", <<Lit("tweets"), Param("tweetId"), Lit("like")>>,
               "InteractionController_likeTweet"),
       RouteOf("DELETE", <<Lit("tweets"), Param("tweetId"), Lit("unlike")>>,
               "InteractionController_unlikeTweet"),
       RouteOf("POST", <<Lit("tweets"), Param("tweetId"), Lit("comments")>>,
               "InteractionController_createComment"),
       RouteOf("GET", <<Lit("tweets"), Param("tweetId"), Lit("comments")>>,
               "InteractionController_getComments") >>

\* The registrations with GET /api/v1/tweets/:tweetId made before
\* GET /api/v1/tweets/search.
RoutesParamFirst ==
    <<TweetRoutes[1], TweetRoutes[2], TweetRoutes[4], TweetRoutes[3]>>
        \o UserRoutes \o InteractionRoutes

Routes == TweetRoutes \o UserRoutes \o InteractionRoutes

\* Literal segments are compared without regard to case.
Lower(segment) ==
    CASE segment = "SEARCH" -> "search"
      [] segment = "Tweets" -> "tweets"
      [] OTHER -> segment

LowerPath(path) == [i \in 1..Len(path) |-> Lower(path[i])]

\* The route's method is the request's and its pattern matches the whole
\* path, a parameter taking any one segment.
RouteMatches(route, method, path) ==
    /\ route.method = method
    /\ Len(route.pattern) = Len(path)
    /\ \A i \in 1..Len(path) :
          route.pattern[i].param \/ route.pattern[i].text = Lower(path[i])

Matching(method, path) ==
    {i \in 1..Len(Routes) : RouteMatches(Routes[i], method, path)}

\* The first registration that matches handles the request: its generated
\* handler answers or calls next(err), and neither reaches a later route.
HandlerOf(method, path) ==
    LET m == Matching(method, path)
    IN IF m = {} THEN "none"
       ELSE Routes[CHOOSE i \in m : \A j \in m : i <= j].handler

Methods == {"GET", "POST", "DELETE"}
Segments ==
    {"tweets", "Tweets", "users", "search", "SEARCH", "1", "abc", "like", "unlike",
     "comments", "follow", "unfollow", "profile", "followers", "following", "likes"}
Tails ==
    {<<a>> : a \in Segments}
        \cup {<<a, b>> : a \in {"tweets", "Tweets", "users"}, b \in Segments}
        \cup {<<a, b, c>> : a \in {"tweets", "Tweets", "users"}, b \in {"1", "abc", "search"},
                            c \in Segments}

Dispatch ==
    /\ \E method \in Methods, tail \in Tails :
          LET path == <<"api", "v1">> \o tail
          IN dispatched' = [method |-> method, path |-> path,
                            handler |-> HandlerOf(method, path)]
    /\ UNCHANGED <<users, tweets, comments, likes, follows, seq, storage, now,
                   initPc, initI, res, calls>>

SpecRoutes == Init /\ [][Dispatch]_vars

\* C10: GET /api/v1/tweets/search goes to searchTweets, never to
\* getTweetById; every other request matches at most one registration and is
\* handled by the handler of the registration it matches, or by none.
IsSearchRequest ==
    /\ dispatched.method = "GET"
    /\ LowerPath(dispatched.path) = <<"api", "v1", "tweets", "search">>

C10_Dispatch ==
    LET m == Matching(dispatched.method, dispatched.path)
    IN /\ IsSearchRequest => dispatched.handler = "TweetController_searchTweets"
       /\ ~IsSearchRequest =>
             /\ Cardinality(m) <= 1
             /\ m = {} => dispatched.handler = "none"
             /\ \A i \in m : dispatched.handler = Routes[i].handler
       /\ dispatched.handler = "TweetController_getTweetById" =>
             Lower(dispatched.path[4]) # "search"

\* The request GET /api/v1/tweets/search has been dispatched.
C10_Witness ==
    /\ dispatched.method = "GET"
    /\ dispatched.path = <<"api", "v1", "tweets", "search">>
    /\ dispatched.handler = "TweetController_searchTweets"


\* C11: every invocation of followUser ends in one of four outcomes, decided
\* in this order: 400 if the target is the caller, else 404 if no User row
\* has the target id, else 409 if a Follow row (caller, target) exists, else
\* 200 with exactly one Follow row (caller, target) inserted; the three error
\* outcomes leave the Follow table as it was.
FollowInserted(user, target) ==
    /\ follows \subseteq follows'
    /\ Cardinality(follows' \ follows) = 1
    /\ \A f \in follows' \ follows : f.followerId = user /\ f.followedId = target

FollowOutcome ==
    (res'.op = "followUser" /\ res'.invoked) =>
        LET user == res'.user
            target == res'.nums[1]
        IN IF user = target
           THEN res'.status = 400 /\ follows' = follows
           ELSE IF ~UserExists(Cur, target)
           THEN res'.status = 404 /\ follows' = follows
           ELSE IF FollowRows(Cur, user, target) # {}
           THEN res'.status = 409 /\ follows' = follows
           ELSE res'.status = 200 /\ FollowInserted(user, target)

C11_FollowOutcomes == [][FollowOutcome]_vars


\* C12: with followUser and unfollowUser each running to completion before
\* the next request begins, the Follow table never holds two rows with the
\* same (followerId, followedId).
C12_OneFollowPerPair ==
    \A f1, f2 \in follows :
        (f1.followerId = f2.followerId /\ f1.followedId = f2.followedId) => f1 = f2

\* A second followUser of a pair that is already followed was answered 409.
C12_Witness ==
    /\ res.op = "followUser"
    /\ res.status = 409
    /\ FollowRows(Cur, res.user, res.nums[1]) # {}


\* C14: every invocation of unfollowUser answers 404 with the Follow table
\* unchanged when no Follow row (caller, target) exists, and otherwise
\* removes exactly the rows (caller, target) and answers 200, whether or not
\* a User row has the target id.
UnfollowOutcome ==
    (res'.op = "unfollowUser" /\ res'.invoked) =>
        LET rows == FollowRows(Cur, res'.user, res'.nums[1])
        IN IF rows = {}
           THEN res'.status = 404 /\ follows' = follows
           ELSE res'.status = 200 /\ follows' = follows \ rows

C14_UnfollowOutcomes == [][UnfollowOutcome]_vars


\* C15: from a database with no Follow row (a, b) in which followUser by a
\* on b succeeds, a second followUser answers 409 and changes nothing, an
\* unfollowUser then answers 200 and gives back the earlier set of
\* (followerId, followedId) pairs, and a second unfollowUser answers 404 and
\* changes nothing.
Pairs(db) == {<<f.followerId, f.followedId>> : f \in db.follows}

C15_FollowUnfollowInverse ==
    \A a, b \in UserIds :
        (/\ FollowRows(Cur, a, b) = {}
         /\ \E o \in followUser(Cur, a, b) : o.ans.status = 200)
        => \A o1 \in followUser(Cur, a, b) :
              /\ o1.ans.status = 200
              /\ Pairs(o1.db) = Pairs(Cur) \cup {<<a, b>>}
              /\ \A o2 \in followUser(o1.db, a, b) :
                    o2.ans.status = 409 /\ o2.db = o1.db
              /\ \A o3 \in unfollowUser(o1.db, a, b) :
                    /\ o3.ans.status = 200
                    /\ Pairs(o3.db) = Pairs(Cur)
                    /\ \A o4 \in unfollowUser(o3.db, a, b) :
                          o4.ans.status = 404 /\ o4.db = o3.db

\* A follow, a refused second follow and an unfollow have run: the pair is
\* gone again while the other direction is still followed.
C15_Witness ==
    /\ res.op = "unfollowUser"
    /\ res.status = 200
    /\ seq.follows >= 2
    /\ FollowRows(Cur, res.user, res.nums[1]) = {}
    /\ FollowRows(Cur, res.nums[1], res.user) # {}


\* C16: unlikeTweet removes exactly the Like rows of (current user, path
\* tweet), duplicates included, and answers 200 whether or not such a row
\* or the tweet exists; unliking again changes nothing.
UnlikeOutcome ==
    (res'.op = "unlikeTweet" /\ res'.invoked) =>
        /\ res'.status = 200
        /\ likes' = likes \ LikeRows(Cur, res'.user, res'.nums[1])
        /\ \A l \in likes \ likes' :
              l.userId = res'.user /\ l.tweetId = res'.nums[1]

UnlikeIdempotent ==
    \A user \in CurrentUserIds, tweetId \in 1..(MaxTweetId + 1) :
        \A o1 \in unlikeTweet(Cur, user, tweetId) :
            /\ LikeRows(o1.db, user, tweetId) = {}
            /\ \A o2 \in unlikeTweet(o1.db, user, tweetId) :
                  o2.db = o1.db /\ o2.ans.status = 200

C16_UnlikeRemovesAll == [](UnlikeIdempotent) /\ [][UnlikeOutcome]_vars

\* One unlikeTweet has removed two Like rows of the same user and tweet.
C16_Witness ==
    /\ res.op = "unlikeTweet"
    /\ res.counts = <<2>>
    /\ LikeRows(Cur, res.user, res.nums[1]) = {}


\* C17: likeTweet answers 404 when no Tweet row has the path id, else throws
\* when the current user has no User row, both with the Like table
\* unchanged; otherwise it inserts exactly one Like row of that tweet and
\* user and the route answers 201.
LikeInserted(user, tweetId) ==
    /\ likes \subseteq likes'
    /\ Cardinality(likes' \ likes) = 1
    /\ \A l \in likes' \ likes : l.userId = user /\ l.tweetId = tweetId

LikeOutcome ==
    (res'.op = "likeTweet" /\ res'.invoked) =>
        LET user == res'.user
            tweetId == res'.nums[1]
        IN IF ~TweetExists(Cur, tweetId)
           THEN res'.status = 404 /\ res'.err = "none" /\ likes' = likes
           ELSE IF ~UserExists(Cur, user)
           THEN res'.status = 0 /\ res'.err = "Error" /\ res'.nextCalls = 1
                /\ likes' = likes
           ELSE res'.status = 201 /\ res'.err = "none" /\ LikeInserted(user, tweetId)

LikeNeedsTweetAndUser ==
    \A l \in likes : TweetExists(Cur, l.tweetId) /\ UserExists(Cur, l.userId)

C17_LikeOutcomes == [](LikeNeedsTweetAndUser) /\ [][LikeOutcome]_vars

\* likeTweet threw for a current user without a User row, on a stored tweet.
C17_Witness ==
    /\ res.op = "likeTweet"
    /\ res.err = "Error"
    /\ TweetExists(Cur, res.nums[1])
    /\ ~UserExists(Cur, res.user)


\* Likes, and the three readings of tweets with the default paging.
NextRead ==
    \/ Script
    \/ InteractionController_likeTweet
    \/ InteractionController_unlikeTweet
    \/ \E user \in ReqUsers : GetFeedTweetsRequest(user, Absent, Absent)
    \/ \E user \in ReqUsers : SearchTweetsRequest(user, "cat", Absent, Absent)
    \/ TweetController_getTweetById

SpecRead == Init /\ [][NextRead]_vars

\* C18: in an answer of getFeedTweets, searchTweets or getTweetById, hasLiked
\* of a tweet is true exactly when the request carries a user and a Like row
\* of that user and that tweet is stored at the time of the request; without
\* a user it is false for every tweet.
TweetReads == {"getFeedTweets", "searchTweets", "getTweetById"}

HasLikedExact ==
    (res'.op \in TweetReads /\ res'.status = 200) =>
        \A i \in 1..Len(res'.page) :
            res'.page[i].hasLiked
                <=> (/\ res'.user # NoUser
                     /\ \E l \in likes : /\ l.userId = res'.user
                                         /\ l.tweetId = res'.page[i].id)

C18_HasLiked == [][HasLikedExact]_vars

\* A feed answered to a user who has liked one of its two tweets, the other
\* tweet being liked by someone else only.
C18_Witness ==
    /\ res.op = "getFeedTweets"
    /\ res.user # NoUser
    /\ \E i, j \in 1..Len(res.page) :
          /\ res.page[i].hasLiked
          /\ ~res.page[j].hasLiked
          /\ \E l \in likes : l.tweetId = res.page[j].id


\* C19: getTweetById answers 404 exactly when no Tweet row has the requested
\* id; otherwise it answers with that row's id, imageUrl, tweetText,
\* createdAt and userId, and with the username of the row's owner ("unknown"
\* when no User row is loaded for it) and a null avatarUrl.
TweetReturned(e, t) ==
    /\ e.id = t.id
    /\ e.imageUrl = t.imageUrl
    /\ e.tweetText = t.tweetText
    /\ e.createdAt = t.createdAt
    /\ e.userId = t.userId
    /\ e.avatarUrl = Null
    /\ \/ \E u \in users : u.id = t.userId /\ e.username = u.username
       \/ (\A u \in users : u.id # t.userId) /\ e.username = "unknown"

GetTweetByIdOutcome ==
    (res'.op = "getTweetById" /\ res'.invoked) =>
        LET found == {t \in tweets : t.id = res'.nums[1]}
        IN IF found = {}
           THEN res'.status = 404 /\ res'.page = <<>>
           ELSE /\ res'.status = 200
                /\ Len(res'.page) = 1
                /\ \A t \in found : TweetReturned(res'.page[1], t)

C19_GetTweetById == [][GetTweetByIdOutcome]_vars

\* The tweet of the guest user was read while the admin's tweet is stored
\* beside it.
C19_Witness ==
    /\ res.op = "getTweetById"
    /\ res.status = 200
    /\ res.page[1].username = GUEST_USERNAME
    /\ \E t \in tweets : t.id # res.nums[1] /\ t.userId = ADMIN_USER_ID


\* C20: createTweet answers 400 when imageBase64 is empty or imageFileType
\* does not start with "image/", with no upload made and no Tweet row
\* created, and answers 400 in no other case.
RejectedImage(body) ==
    body.imageBase64 = "" \/ body.imageFileType # "image/png"

C20_BadImageRefused ==
    \A user \in ReqUsers, b64 \in ImageBase64Raw \ {Absent},
       type \in ImageFileTypeRaw \ {Absent}, text \in TweetTextRaw \ {Absent} :
        LET body == [imageBase64 |-> b64, imageFileType |-> type, tweetText |-> text]
        IN \A o \in createTweet(Cur, user, body) :
              IF RejectedImage(body)
              THEN /\ o.ans.status = 400
                   /\ o.db.storage = storage
                   /\ o.db.tweets = tweets
                   /\ o.db.seq = seq
              ELSE o.ans.status # 400

\* createTweet has answered 400 after the script stored its tweet: nothing
\* was uploaded for the refused request.
C20_Witness ==
    /\ res.op = "createTweet"
    /\ res.status = 400
    /\ Cardinality(tweets) = 1
    /\ Cardinality(storage) = 1
    /\ seq.objects = 1


\* ------------------------------------- followUser, one await at a time
\* followUser awaits three times: userRepo.findOneBy, followRepo.findOneBy
\* and followRepo.save. Each query runs against the database as it is when
\* the query runs, and the steps of other requests can run in between.

\* Request c has been answered: the slot keeps what was answered.
Answered(c, ans) ==
    /\ calls' = [calls EXCEPT ![c] = [pc |-> "idle", user |-> ans.user,
                                      target |-> IF ans.nums = <<>> THEN 0 ELSE ans.nums[1],
                                      status |-> ans.status]]
    /\ res' = ans

\* Request c moves on to its next await.
Awaits(c, pc, user, target) ==
    /\ calls' = [calls EXCEPT ![c] = [pc |-> pc, user |-> user, target |-> target,
                                      status |-> 0]]
    /\ res' = res

\* The generated handler validates the path parameter and invokes the
\* method, which runs up to its first await.
FollowUserBegin(c) ==
    /\ calls[c].pc = "idle"
    /\ \E user \in ReqUsers, userIdToFollow \in PathRaw :
          IF ~ValidPath(userIdToFollow)
          THEN Answered(c, Rejected("followUser").ans)
          ELSE LET target == ToNumber(userIdToFollow)
               IN IF user = NoUser
                  THEN Answered(c, Threw("followUser", user, <<target>>, "TypeError"))
                  ELSE IF user = target
                  THEN Answered(c, Answer("followUser", user, <<target>>, 400))
                  ELSE Awaits(c, "findUser", user, target)
    /\ UNCHANGED <<users, tweets, comments, likes, follows, seq, storage, now,
                   initPc, initI, dispatched>>

\* await userRepo.findOneBy({ id: userIdToFollow }) and the test that follows
FollowUserFindUser(c) ==
    /\ calls[c].pc = "findUser"
    /\ IF ~UserExists(Cur, calls[c].target)
       THEN Answered(c, Answer("followUser", calls[c].user, <<calls[c].target>>, 404))
       ELSE Awaits(c, "findFollow", calls[c].user, calls[c].target)
    /\ UNCHANGED <<users, tweets, comments, likes, follows, seq, storage, now,
                   initPc, initI, dispatched>>

\* await followRepo.findOneBy({ followerId, followedId }) and the test that
\* follows
FollowUserFindFollow(c) ==
    /\ calls[c].pc = "findFollow"
    /\ IF FollowRows(Cur, calls[c].user, calls[c].target) # {}
       THEN Answered(c, Answer("followUser", calls[c].user, <<calls[c].target>>, 409))
       ELSE Awaits(c, "save", calls[c].user, calls[c].target)
    /\ UNCHANGED <<users, tweets, comments, likes, follows, seq, storage, now,
                   initPc, initI, dispatched>>

\* followRepo.save, had the table a unique constraint on the pair.
FollowUserSaveUnique(c) ==
    /\ calls[c].pc = "save"
    /\ seq.follows < MaxFollowId
    /\ IF FollowRows(Cur, calls[c].user, calls[c].target) # {}
       THEN /\ follows' = follows
            /\ Answered(c, Threw("followUser", calls[c].user, <<calls[c].target>>,
                                 "QueryFailedError"))
       ELSE /\ follows' = follows \cup {[id |-> NextId(Cur, "follows"),
                                         followerId |-> calls[c].user,
                                         followedId |-> calls[c].target]}
            /\ Answered(c, Answer("followUser", calls[c].user, <<calls[c].target>>, 200))
    /\ seq' = Drawn(Cur, "follows")
    /\ UNCHANGED <<users, tweets, comments, likes, storage, now, initPc, initI,
                   dispatched>>

\* await followRepo.save(newFollow) and the 200 that follows
FollowUserSave(c) ==
    /\ calls[c].pc = "save"
    /\ seq.follows < MaxFollowId
    /\ follows' = follows \cup {[id |-> NextId(Cur, "follows"),
                                 followerId |-> calls[c].user,
                                 followedId |-> calls[c].target]}
    /\ seq' = Drawn(Cur, "follows")
    /\ Answered(c, Answer("followUser", calls[c].user, <<calls[c].target>>, 200))
    /\ UNCHANGED <<users, tweets, comments, likes, storage, now, initPc, initI,
                   dispatched>>

\* The startup script and followUser requests served side by side.
NextRace ==
    \/ Script
    \/ \E c \in Calls : FollowUserBegin(c)
    \/ \E c \in Calls : FollowUserFindUser(c)
    \/ \E c \in Calls : FollowUserFindFollow(c)
    \/ \E c \in Calls : FollowUserSave(c)

SpecRace == Init /\ [][NextRace]_vars

\* C13: the lookup of an existing Follow row and the insert are separate
\* awaited steps of followUser: a request passes the lookup when no row of
\* the pair exists at that moment, writing nothing, and a request that has
\* passed it inserts one row and answers 200 whatever rows exist by then.
LookupPassed(c) ==
    (calls[c].pc = "findFollow" /\ calls'[c].pc = "save") =>
        /\ FollowRows(Cur, calls[c].user, calls[c].target) = {}
        /\ follows' = follows

SaveInserts(c) ==
    (calls[c].pc = "save" /\ calls'[c] # calls[c]) =>
        /\ calls'[c] = [pc |-> "idle", user |-> calls[c].user,
                        target |-> calls[c].target, status |-> 200]
        /\ \E f \in follows' \ follows :
              /\ f.followerId = calls[c].user
              /\ f.followedId = calls[c].target
              /\ follows' = follows \cup {f}

C13_FollowRace == [][\A c \in Calls : LookupPassed(c) /\ SaveInserts(c)]_vars

\* Two requests of one user for one target have both answered 200, and the
\* table holds two rows of the pair.
C13_Witness ==
    \E c, d \in Calls :
        /\ c # d
        /\ calls[c].pc = "idle" /\ calls[d].pc = "idle"
        /\ calls[c].status = 200 /\ calls[d].status = 200
        /\ calls[c].user = calls[d].user
        /\ calls[c].target = calls[d].target
        /\ Cardinality(FollowRows(Cur, calls[c].user, calls[c].target)) = 2


\* C21: createTweet uploads before it saves and compensates nothing. When
\* the upload fails it answers 500 and neither a Tweet row nor an object is
\* added; when the upload succeeds and the save fails it answers 500, no
\* Tweet row is added and the uploaded object stays in the object storage;
\* on success exactly one Tweet row is added, owned by the authenticated
\* user and pointing at the object just uploaded, and the response has
\* hasLiked = false.
\* The step is one of createTweet that got past the test of the image (the
\* clock stands still while a handler runs).
CreateTweetInvoked ==
    /\ res'.op = "createTweet"
    /\ res'.invoked
    /\ res'.status # 400
    /\ now' = now

UploadMade == seq'.objects = seq.objects + 1

ObjectKept ==
    \E o \in storage' \ storage :
        /\ o.url = seq'.objects
        /\ storage' = storage \cup {o}

CreateTweetOutcome ==
    CreateTweetInvoked =>
        /\ res'.status \in {200, 500}
        /\ ~UploadMade =>
              /\ res'.status = 500
              /\ tweets' = tweets
              /\ storage' = storage
              /\ seq'.objects = seq.objects
        /\ UploadMade => ObjectKept
        /\ res'.status = 500 => tweets' = tweets
        /\ res'.status = 200 =>
              /\ UploadMade
              /\ res'.user # NoUser
              /\ \E t \in tweets' \ tweets :
                    /\ tweets' = tweets \cup {t}
                    /\ t.userId = res'.user
                    /\ t.imageUrl = seq'.objects
                    /\ Len(res'.page) = 1
                    /\ res'.page[1].id = t.id
                    /\ res'.page[1].hasLiked = FALSE

C21_UploadThenSave == [][CreateTweetOutcome]_vars

\* createTweet of a caller with an id has answered 500 after its upload was
\* made: the object is stored and no tweet points at it.
C21_Witness ==
    /\ res.op = "createTweet"
    /\ res.status = 500
    /\ res.user # NoUser
    /\ \E o \in storage :
          /\ o.url = seq.objects
          /\ \A t \in tweets : t.imageUrl # o.url


\* C22: a step of getFeedTweets, searchTweets, getTweetById, getUserProfile,
\* getUserFollowers, getUserFollowing, getUserLikes or getComments leaves the
\* users, tweets, comments, likes and follows tables as they were, whatever
\* it answers.
ReadHandlers ==
    {"getFeedTweets", "searchTweets", "getTweetById", "getUserProfile",
     "getUserFollowers", "getUserFollowing", "getUserLikes", "getComments"}

ReadFrame ==
    res'.op \in ReadHandlers =>
        /\ users' = users
        /\ tweets' = tweets
        /\ comments' = comments
        /\ likes' = likes
        /\ follows' = follows

C22_ReadsWriteNothing == [][ReadFrame]_vars

\* A read handler was invoked and answered 404 while the tables hold a
\* user, a tweet and a Like or Follow row.
C22_Witness ==
    /\ res.op \in ReadHandlers
    /\ res.invoked
    /\ res.status = 404
    /\ users # {}
    /\ tweets # {}
    /\ likes \cup follows # {}

====
